---- MODULE Spec2Model ----
(***************************************************************************)
(* Conversation matching and lifecycle of the anonymous helpline bot.      *)
(*                                                                         *)
(* logic.py keeps all shared state in the database; main.py runs every     *)
(* inbound event in a worker thread of the bot.  Each database statement   *)
(* and each outbound send is one step of the worker that executes it, so   *)
(* the steps of two workers interleave freely.                             *)
(*                                                                         *)
(* Identities are the telegram ids 1..NumIds.  The users' local (display)  *)
(* ids are a fixed relabelling of the telegram ids and are left out:       *)
(* get_conversing is modelled by the pair (client_tg, operator_tg).        *)
(*                                                                         *)
(* Message ids are counted per chat.  Only text messages and relayed       *)
(* deliveries take an id here; commands and the bot's own answers would    *)
(* only make the ids of a chat skip values.                                *)
(***************************************************************************)
EXTENDS Integers, FiniteSets, Sequences, TLC

\* Number of identities known to the users table.
NumIds == 3

\* Largest number of users that carry the operator role.
NumOperators == 2

\* Worker threads of the bot that run the handlers.
NumThreads == 2

\* Messages the chats hold in total.
MaxMessages == 4

Ids == 1..NumIds

Threads == 1..NumThreads

\* get_conversing's answer for a user that is in no conversation.
NoConversation == <<-1, -1>>

\* Value of a local that has not been assigned in the current call.
Unset == 0

\* Return code that start_conversation has not produced yet.
NoCode == -2

VARIABLES
    operators,      \* users whose operator flag is set
    conversations,  \* rows <<client_id, operator_id>> of the conversations table
    pc,             \* position of every worker thread
    handler,        \* the handler the worker runs (or ran last)
    chat_id,        \* message.chat.id of the event the worker handles
    selected,       \* the operator the INSERT's SELECT picked (Unset: none)
    created,        \* whether the INSERT of this call added a row
    err,            \* code returned by start_conversation
    conversing,     \* the get_conversing answer held by the handler
    reply,          \* what the handler answered to the caller
    notified,       \* the chat that got the counterpart notification (Unset: none)
    reflected_messages, \* rows <<sender_chat_id, sender_message_id,
                        \*        receiver_chat_id, receiver_message_id>>
    last_message_id,    \* the newest message id of every chat
    message_id,         \* message.message_id of the text the worker handles
    reply_to_message,   \* message.reply_to_message.message_id (Unset: no reply)
    interlocutor_id,    \* the counterpart text_message_handler computed
    reply_to,           \* the reply target resolved through reflected_messages
    sent,               \* sent.message_id of the delivered copy
    admin_report        \* the last notify_admins call of the worker

vars == <<operators, conversations, pc, handler, chat_id, selected, created,
          err, conversing, reply, notified, reflected_messages, last_message_id,
          message_id, reply_to_message, interlocutor_id, reply_to, sent,
          admin_report>>

locals == <<selected, created, err, conversing, reply, notified>>

\* The relay ledger and the chats' message counters.
relay == <<reflected_messages, last_message_id>>

\* Locals of text_message_handler.
text_locals == <<message_id, reply_to_message, interlocutor_id, reply_to, sent>>

\* What the conversation handlers leave alone.
untouched == <<relay, text_locals, admin_report>>

\* admin_report of a worker that has not called notify_admins.
NoReport ==
    [admins |-> <<>>, failing |-> {}, readable |-> TRUE,
     attempted |-> {}, received |-> {}, result |-> FALSE, called |-> FALSE]

----
\* Database schema and queries

\* user_is_operator(tg_id) of the schema: the user carries the operator role.
user_is_operator(tg_id) == tg_id \in operators

\* Rows of conversations in which tg_id takes part, in either role.
RowsOf(tg_id, rows) == {r \in rows : r[1] = tg_id \/ r[2] = tg_id}

\* get_conversing: the answers fetchone() can give for tg_id.
get_conversing(tg_id, rows) ==
    IF RowsOf(tg_id, rows) = {} THEN {NoConversation} ELSE RowsOf(tg_id, rows)

\* The SELECT without its user_is_operator(tg_id) condition.
EligibleUsers(tg_client_id, rows) ==
    {tg_id \in Ids : /\ tg_client_id # tg_id
                     /\ RowsOf(tg_id, rows) = {}}

\* The SELECT of start_conversation's INSERT: operators other than the caller
\* that appear in no conversation.
EligibleOperators(tg_client_id, rows) ==
    {tg_id \in Ids : /\ user_is_operator(tg_id)
                     /\ tg_client_id # tg_id
                     /\ RowsOf(tg_id, rows) = {}}

\* The primary key alone, without the unique index on operator_id.
UniqueClientViolated(row, rows) ==
    \E r \in rows : r[1] = row[1]

\* Primary key on client_id and unique index on operator_id.
UniqueViolated(row, rows) ==
    \E r \in rows : r[1] = row[1] \/ r[2] = row[2]

\* Check constraint client_is_not_operating: the client is nobody's operator.
ClientIsOperatingViolated(row, rows) ==
    \E r \in rows : r[2] = row[1]

\* The remaining check constraints: client and operator differ, and the
\* operator is nobody's client.
OtherCheckViolated(row, rows) ==
    \/ row[1] = row[2]
    \/ \E r \in rows : r[1] = row[2]

\* The errors the store may raise when row is inserted into rows.
Violations(row, rows) ==
    {e \in {"UniqueViolation", "client_is_not_operating", "CheckViolation"} :
        \/ e = "UniqueViolation" /\ UniqueViolated(row, rows)
        \/ e = "client_is_not_operating" /\ ClientIsOperatingViolated(row, rows)
        \/ e = "CheckViolation" /\ OtherCheckViolated(row, rows)}

\* The except clauses of start_conversation.
ErrorCode(e) ==
    CASE e = "UniqueViolation" -> 1
      [] e = "client_is_not_operating" -> 2
      [] OTHER -> -1

\* The DELETE with operator_id in place of client_id.
end_conversation_of_operator(tg_client_id, rows) ==
    {r \in rows : r[2] # tg_client_id}

\* DELETE FROM conversations WHERE client_id = tg_client_id
end_conversation(tg_client_id, rows) ==
    {r \in rows : r[1] # tg_client_id}

----
\* Handlers

TypeOK ==
    /\ operators \subseteq Ids
    /\ conversations \subseteq Ids \X Ids
    /\ pc \in [Threads -> {"idle", "start_check", "insert_select", "insert_commit",
                           "start_read", "start_reply", "end_read", "end_delete",
                           "end_notify", "text_read", "text_resolve", "text_send",
                           "text_record", "callback_decode", "callback_notify",
                           "callback_answer", "done"}]
    /\ handler \in [Threads -> {"none", "start_conversation", "end_conversation",
                                "text_message", "callback_query"}]
    /\ chat_id \in [Threads -> Ids \cup {Unset}]
    /\ selected \in [Threads -> Ids \cup {Unset}]
    /\ created \in [Threads -> BOOLEAN]
    /\ err \in [Threads -> {NoCode, -1, 0, 1, 2, 3}]
    /\ conversing \in [Threads -> (Ids \X Ids) \cup {NoConversation}]
    /\ reply \in [Threads -> STRING]
    /\ notified \in [Threads -> Ids \cup {Unset}]
    /\ reflected_messages \subseteq
            Ids \X (1..MaxMessages) \X Ids \X (1..MaxMessages)
    /\ last_message_id \in [Ids -> 0..MaxMessages]
    /\ message_id \in [Threads -> 0..MaxMessages]
    /\ reply_to_message \in [Threads -> 0..MaxMessages]
    /\ interlocutor_id \in [Threads -> Ids \cup {Unset}]
    /\ reply_to \in [Threads -> 0..MaxMessages]
    /\ sent \in [Threads -> 0..MaxMessages]
    /\ \A t \in Threads :
        /\ admin_report[t].admins \in Seq(Ids)
        /\ admin_report[t].failing \subseteq Ids
        /\ admin_report[t].attempted \subseteq Ids
        /\ admin_report[t].received \subseteq Ids
        /\ admin_report[t].readable \in BOOLEAN
        /\ admin_report[t].result \in BOOLEAN
        /\ admin_report[t].called \in BOOLEAN

Init ==
    /\ \E k \in 0..NumOperators : operators = (1..k) \cap Ids
    /\ conversations = {}
    /\ pc = [t \in Threads |-> "idle"]
    /\ handler = [t \in Threads |-> "none"]
    /\ chat_id = [t \in Threads |-> Unset]
    /\ selected = [t \in Threads |-> Unset]
    /\ created = [t \in Threads |-> FALSE]
    /\ err = [t \in Threads |-> NoCode]
    /\ conversing = [t \in Threads |-> NoConversation]
    /\ reply = [t \in Threads |-> "none"]
    /\ notified = [t \in Threads |-> Unset]
    /\ reflected_messages = {}
    /\ last_message_id = [id \in Ids |-> 0]
    /\ message_id = [t \in Threads |-> Unset]
    /\ reply_to_message = [t \in Threads |-> Unset]
    /\ interlocutor_id = [t \in Threads |-> Unset]
    /\ reply_to = [t \in Threads |-> Unset]
    /\ sent = [t \in Threads |-> Unset]
    /\ admin_report = [t \in Threads |-> NoReport]

\* A free worker picks up the next event: /start_conversation or
\* /end_conversation sent by user id.
Dispatch(t, id, h) ==
    /\ pc[t] \in {"idle", "done"}
    /\ pc' = [pc EXCEPT ![t] = IF h = "start_conversation" THEN "start_check"
                                                          ELSE "end_read"]
    /\ handler' = [handler EXCEPT ![t] = h]
    /\ chat_id' = [chat_id EXCEPT ![t] = id]
    /\ selected' = [selected EXCEPT ![t] = Unset]
    /\ created' = [created EXCEPT ![t] = FALSE]
    /\ err' = [err EXCEPT ![t] = NoCode]
    /\ conversing' = [conversing EXCEPT ![t] = NoConversation]
    /\ reply' = [reply EXCEPT ![t] = "none"]
    /\ notified' = [notified EXCEPT ![t] = Unset]
    /\ message_id' = [message_id EXCEPT ![t] = Unset]
    /\ reply_to_message' = [reply_to_message EXCEPT ![t] = Unset]
    /\ interlocutor_id' = [interlocutor_id EXCEPT ![t] = Unset]
    /\ reply_to' = [reply_to EXCEPT ![t] = Unset]
    /\ sent' = [sent EXCEPT ![t] = Unset]
    /\ admin_report' = [admin_report EXCEPT ![t] = NoReport]
    /\ UNCHANGED <<operators, conversations, relay>>

\* start_conversation without the check before the INSERT.
IsCryingUnchecked(tg_client_id, c) == FALSE

\* The test start_conversation makes on get_conversing's answer before the
\* INSERT: the caller is the client of the row.
IsCrying(tg_client_id, c) == c[1] = tg_client_id

\* start_conversation, the check before the INSERT: a caller that is the
\* client of a conversation gets code 1.
StartCheck(t) ==
    /\ pc[t] = "start_check"
    /\ \E c \in get_conversing(chat_id[t], conversations) :
        IF IsCrying(chat_id[t], c)
        THEN /\ err' = [err EXCEPT ![t] = 1]
             /\ pc' = [pc EXCEPT ![t] = "start_reply"]
        ELSE /\ err' = err
             /\ pc' = [pc EXCEPT ![t] = "insert_select"]
    /\ UNCHANGED <<operators, conversations, handler, chat_id, selected, created,
                   conversing, reply, notified>>
    /\ UNCHANGED untouched

\* The INSERT ... SELECT evaluates its SELECT: one eligible operator at
\* random, or no row at all.
InsertSelect(t) ==
    /\ pc[t] = "insert_select"
    /\ IF EligibleOperators(chat_id[t], conversations) = {}
       THEN /\ selected' = selected
            /\ pc' = [pc EXCEPT ![t] = "start_read"]
       ELSE \E tg_id \in EligibleOperators(chat_id[t], conversations) :
            /\ selected' = [selected EXCEPT ![t] = tg_id]
            /\ pc' = [pc EXCEPT ![t] = "insert_commit"]
    /\ UNCHANGED <<operators, conversations, handler, chat_id, created, err,
                   conversing, reply, notified>>
    /\ UNCHANGED untouched

\* The selected row reaches the table: the store either raises one of the
\* violated constraints, which the except clauses turn into a code, or adds
\* the row.
InsertCommit(t) ==
    /\ pc[t] = "insert_commit"
    /\ LET row == <<chat_id[t], selected[t]>> IN
       IF Violations(row, conversations) = {}
       THEN /\ conversations' = conversations \cup {row}
            /\ created' = [created EXCEPT ![t] = TRUE]
            /\ err' = err
            /\ pc' = [pc EXCEPT ![t] = "start_read"]
       ELSE \E e \in Violations(row, conversations) :
            /\ conversations' = conversations
            /\ created' = created
            /\ err' = [err EXCEPT ![t] = ErrorCode(e)]
            /\ pc' = [pc EXCEPT ![t] = "start_reply"]
    /\ UNCHANGED <<operators, handler, chat_id, selected, conversing, reply,
                   notified>>
    /\ UNCHANGED untouched

\* start_conversation reads the caller's conversation back: none means
\* code 3, any row means code 0 with that row.
StartRead(t) ==
    /\ pc[t] = "start_read"
    /\ \E c \in get_conversing(chat_id[t], conversations) :
        IF c[1] = -1
        THEN /\ err' = [err EXCEPT ![t] = 3]
             /\ conversing' = conversing
        ELSE /\ err' = [err EXCEPT ![t] = 0]
             /\ conversing' = [conversing EXCEPT ![t] = c]
    /\ pc' = [pc EXCEPT ![t] = "start_reply"]
    /\ UNCHANGED <<operators, conversations, handler, chat_id, selected, created,
                   reply, notified>>
    /\ UNCHANGED untouched

\* start_conversation_handler's answer for a return code.
StartReplyText(code) ==
    CASE code = 0 -> "conversation_started"
      [] code = 1 -> "already_in_conversation"
      [] code = 2 -> "client_is_operating"
      [] code = 3 -> "no_operators_available"
      [] OTHER -> "error"

\* start_conversation_handler after start_conversation returned: answer the
\* caller and, on success, tell the operator of the returned row.
StartReply(t) ==
    /\ pc[t] = "start_reply"
    /\ reply' = [reply EXCEPT ![t] = StartReplyText(err[t])]
    /\ notified' = [notified EXCEPT ![t] =
                        IF err[t] = 0 THEN conversing[t][2] ELSE Unset]
    /\ pc' = [pc EXCEPT ![t] = "done"]
    /\ UNCHANGED <<operators, conversations, handler, chat_id, selected, created,
                   err, conversing>>
    /\ UNCHANGED untouched

\* end_conversation_handler without the test for a caller in no conversation.
EndBranchWithoutConversation(id, c) ==
    IF c[2] = id THEN "operator_cannot_end" ELSE "end"

\* end_conversation_handler without the branch that refuses an operator.
EndBranchForAnyone(id, c) ==
    IF c[2] = -1 THEN "not_in_conversation" ELSE "end"

\* The branch end_conversation_handler takes on get_conversing's answer.
EndBranch(id, c) ==
    IF c[2] = -1 THEN "not_in_conversation"
    ELSE IF c[2] = id THEN "operator_cannot_end"
    ELSE "end"

\* end_conversation_handler reads the caller's conversation.
EndRead(t) ==
    /\ pc[t] = "end_read"
    /\ \E c \in get_conversing(chat_id[t], conversations) :
        /\ conversing' = [conversing EXCEPT ![t] = c]
        /\ IF EndBranch(chat_id[t], c) = "end"
           THEN /\ pc' = [pc EXCEPT ![t] = "end_delete"]
                /\ reply' = reply
           ELSE /\ pc' = [pc EXCEPT ![t] = "done"]
                /\ reply' = [reply EXCEPT ![t] = EndBranch(chat_id[t], c)]
    /\ UNCHANGED <<operators, conversations, handler, chat_id, selected, created,
                   err, notified>>
    /\ UNCHANGED untouched

\* end_conversation(message.chat.id)
EndDelete(t) ==
    /\ pc[t] = "end_delete"
    /\ conversations' = end_conversation(chat_id[t], conversations)
    /\ pc' = [pc EXCEPT ![t] = "end_notify"]
    /\ UNCHANGED <<operators, handler, chat_id, locals>>
    /\ UNCHANGED untouched

\* end_conversation_handler answers the caller and tells the operator it
\* read before the delete.
EndNotify(t) ==
    /\ pc[t] = "end_notify"
    /\ reply' = [reply EXCEPT ![t] = "conversation_ended"]
    /\ notified' = [notified EXCEPT ![t] = conversing[t][2]]
    /\ pc' = [pc EXCEPT ![t] = "done"]
    /\ UNCHANGED <<operators, conversations, handler, chat_id, selected, created,
                   err, conversing>>
    /\ UNCHANGED untouched

\* The steps of start_conversation_handler.
StartStep(t) ==
    \/ \E id \in Ids : Dispatch(t, id, "start_conversation")
    \/ StartCheck(t)
    \/ InsertSelect(t)
    \/ InsertCommit(t)
    \/ StartRead(t)
    \/ StartReply(t)

\* The steps of end_conversation_handler.
EndStep(t) ==
    \/ \E id \in Ids : Dispatch(t, id, "end_conversation")
    \/ EndRead(t)
    \/ EndDelete(t)
    \/ EndNotify(t)

Step(t) == StartStep(t) \/ EndStep(t)

Next == \E t \in Threads : Step(t)

\* Events handled by concurrent workers.
Spec == Init /\ [][Next]_vars

\* No other worker is inside a handler.
Alone(t) == \A u \in Threads \ {t} : pc[u] \in {"idle", "done"}

SeqNext == \E t \in Threads : Alone(t) /\ Step(t)

\* Events handled one after the other.
SeqSpec == Init /\ [][SeqNext]_vars

StartNext == \E t \in Threads : StartStep(t)

\* Only /start_conversation events arrive, handled by concurrent workers.
StartSpec == Init /\ [][StartNext]_vars

\* The messages of the chats 1..n.
RECURSIVE MessagesUpTo(_)
MessagesUpTo(n) == IF n = 0 THEN 0 ELSE last_message_id[n] + MessagesUpTo(n - 1)

\* The messages all chats hold.
MessagesHeld == MessagesUpTo(NumIds)

\* A text message arrives from chat id, replying to target (Unset: to none).
\* It takes the next message id of its chat.
TextArrives(t, id, target) ==
    /\ pc[t] \in {"idle", "done"}
    /\ MessagesHeld < MaxMessages
    /\ target \in 0..last_message_id[id]
    /\ handler' = [handler EXCEPT ![t] = "text_message"]
    /\ chat_id' = [chat_id EXCEPT ![t] = id]
    /\ pc' = [pc EXCEPT ![t] = "text_read"]
    /\ last_message_id' = [last_message_id EXCEPT ![id] = @ + 1]
    /\ message_id' = [message_id EXCEPT ![t] = last_message_id[id] + 1]
    /\ reply_to_message' = [reply_to_message EXCEPT ![t] = target]
    /\ interlocutor_id' = [interlocutor_id EXCEPT ![t] = Unset]
    /\ reply_to' = [reply_to EXCEPT ![t] = Unset]
    /\ sent' = [sent EXCEPT ![t] = Unset]
    /\ selected' = [selected EXCEPT ![t] = Unset]
    /\ created' = [created EXCEPT ![t] = FALSE]
    /\ err' = [err EXCEPT ![t] = NoCode]
    /\ conversing' = [conversing EXCEPT ![t] = NoConversation]
    /\ reply' = [reply EXCEPT ![t] = "none"]
    /\ notified' = [notified EXCEPT ![t] = Unset]
    /\ admin_report' = [admin_report EXCEPT ![t] = NoReport]
    /\ UNCHANGED <<operators, conversations, reflected_messages>>

\* text_message_handler that takes every sender for a conversing one.
HasInterlocutorAlways(c) == TRUE

\* text_message_handler's test that the sender is in a conversation.
HasInterlocutor(c) == c[1] # -1

\* text_message_handler that always writes to the client of the conversation.
InterlocutorClient(id, c) == c[1]

\* The other side of conversation c, seen from chat id.
Interlocutor(id, c) == IF id # c[1] THEN c[1] ELSE c[2]

\* text_message_handler reads the sender's conversation.
TextRead(t) ==
    /\ pc[t] = "text_read"
    /\ \E c \in get_conversing(chat_id[t], conversations) :
        /\ conversing' = [conversing EXCEPT ![t] = c]
        /\ IF HasInterlocutor(c)
           THEN /\ interlocutor_id' = [interlocutor_id EXCEPT ![t] =
                                           Interlocutor(chat_id[t], c)]
                /\ pc' = [pc EXCEPT ![t] =
                              IF reply_to_message[t] = Unset THEN "text_send"
                                                             ELSE "text_resolve"]
                /\ reply' = reply
           ELSE /\ interlocutor_id' = interlocutor_id
                /\ pc' = [pc EXCEPT ![t] = "done"]
                /\ reply' = [reply EXCEPT ![t] = "no_interlocutor"]
    /\ UNCHANGED <<operators, conversations, handler, chat_id, selected, created,
                   err, notified, relay, message_id, reply_to_message, reply_to,
                   sent, admin_report>>

\* The lookup without the condition on the sender of the relayed message.
ReplyTargetsFromAnyChat(interlocutor, chat, target, rows) ==
    {r[2] : r \in {q \in rows : q[3] = chat /\ q[4] = target}}

\* SELECT sender_message_id FROM reflected_messages WHERE sender_chat_id =
\* interlocutor AND receiver_chat_id = chat AND receiver_message_id = target
ReplyTargets(interlocutor, chat, target, rows) ==
    {r[2] : r \in {q \in rows : q[1] = interlocutor /\ q[3] = chat
                                   /\ q[4] = target}}

\* A lookup that treats a missing row as no reply target.
FetchedOrNone(found) == IF found = {} THEN {Unset} ELSE found

\* reply_to, = curr.fetchone(): the rows the cursor may return first; with no
\* row the unpacking raises TypeError.
Fetched(found) == found

\* text_message_handler resolves the message the text replies to.
TextResolve(t) ==
    /\ pc[t] = "text_resolve"
    /\ LET found == ReplyTargets(interlocutor_id[t], chat_id[t],
                                 reply_to_message[t], reflected_messages)
       IN  IF Fetched(found) = {}
           THEN /\ reply_to' = reply_to
                /\ reply' = [reply EXCEPT ![t] = "reply_target_unresolved"]
                /\ pc' = [pc EXCEPT ![t] = "done"]
           ELSE /\ \E m \in Fetched(found) :
                    reply_to' = [reply_to EXCEPT ![t] = m]
                /\ reply' = reply
                /\ pc' = [pc EXCEPT ![t] = "text_send"]
    /\ UNCHANGED <<operators, conversations, handler, chat_id, selected, created,
                   err, conversing, notified, relay, message_id, reply_to_message,
                   interlocutor_id, sent, admin_report>>

\* text_message_handler that goes on to the INSERTs whatever the send did.
AfterSendAlways(ok) == "text_record"

\* Where text_message_handler goes after bot.send_message: an exception
\* leaves the handler.
AfterSend(ok) == IF ok THEN "text_record" ELSE "done"

\* bot.send_message(interlocutor_id, message.text, reply_to_message_id=reply_to)
\* The delivered copy takes the next message id of the interlocutor's chat; a
\* failing send delivers nothing and the wrapper apologises to the sender.
TextSend(t) ==
    /\ pc[t] = "text_send"
    /\ \E ok \in BOOLEAN :
        /\ ok => MessagesHeld < MaxMessages
        /\ IF ok
           THEN LET id == last_message_id[interlocutor_id[t]] + 1
                IN  /\ last_message_id' =
                            [last_message_id EXCEPT ![interlocutor_id[t]] = id]
                    /\ sent' = [sent EXCEPT ![t] = id]
                    /\ reply' = reply
           ELSE /\ UNCHANGED <<last_message_id, sent>>
                /\ reply' = [reply EXCEPT ![t] = "error"]
        /\ pc' = [pc EXCEPT ![t] = AfterSend(ok)]
    /\ UNCHANGED <<operators, conversations, handler, chat_id, selected, created,
                   err, conversing, notified, reflected_messages, message_id,
                   reply_to_message, interlocutor_id, reply_to, admin_report>>

\* The INSERTs with the second one left out.
ReflectedRowsOneWay(sender_chat, sender_message, receiver_chat, receiver_message) ==
    {<<sender_chat, sender_message, receiver_chat, receiver_message>>}

\* The two rows text_message_handler inserts for a relayed message.
ReflectedRows(sender_chat, sender_message, receiver_chat, receiver_message) ==
    {<<sender_chat, sender_message, receiver_chat, receiver_message>>,
     <<receiver_chat, receiver_message, sender_chat, sender_message>>}

\* with PrettyCursor() as cursor: the statements of the block are one
\* transaction of the store, whose rows appear together.
PrettyCursor(rows, added) == rows \cup added

\* text_message_handler records the relayed message: both INSERTs run in one
\* PrettyCursor block.
TextRecord(t) ==
    /\ pc[t] = "text_record"
    /\ reflected_messages' = PrettyCursor(reflected_messages,
            ReflectedRows(chat_id[t], message_id[t], interlocutor_id[t], sent[t]))
    /\ pc' = [pc EXCEPT ![t] = "done"]
    /\ UNCHANGED <<operators, conversations, handler, chat_id, locals,
                   last_message_id, text_locals, admin_report>>

\* The steps of text_message_handler.
TextStep(t) ==
    \/ \E id \in Ids : \E target \in 0..MaxMessages : TextArrives(t, id, target)
    \/ TextRead(t)
    \/ TextResolve(t)
    \/ TextSend(t)
    \/ TextRecord(t)

\* bot.send_message or bot.reply_to raises in start_conversation_handler
\* after start_conversation returned: the operator may not have been told,
\* and the wrapper apologises to the caller.
StartReplyFails(t) ==
    /\ pc[t] = "start_reply"
    /\ reply' = [reply EXCEPT ![t] = "error"]
    /\ notified' = [notified EXCEPT ![t] = Unset]
    /\ pc' = [pc EXCEPT ![t] = "done"]
    /\ UNCHANGED <<operators, conversations, handler, chat_id, selected, created,
                   err, conversing>>
    /\ UNCHANGED untouched

\* bot.send_message or bot.reply_to raises in end_conversation_handler after
\* end_conversation returned.
EndNotifyFails(t) ==
    /\ pc[t] = "end_notify"
    /\ reply' = [reply EXCEPT ![t] = "error"]
    /\ notified' = [notified EXCEPT ![t] = Unset]
    /\ pc' = [pc EXCEPT ![t] = "done"]
    /\ UNCHANGED <<operators, conversations, handler, chat_id, selected, created,
                   err, conversing>>
    /\ UNCHANGED untouched

\* The steps of the three message handlers, failing sends included.
RelayStep(t) ==
    \/ Step(t)
    \/ TextStep(t)
    \/ StartReplyFails(t)
    \/ EndNotifyFails(t)

RelayNext == RelayStep(1)

\* Commands and texts handled one after the other.  One worker takes them
\* all: which worker takes an event changes only whose locals it leaves.
RelaySpec == Init /\ [][RelayNext]_vars

RaceNext ==
    \/ TextStep(1)
    \/ Step(2)
    \/ StartReplyFails(2)
    \/ EndNotifyFails(2)

\* One worker relays texts while the other handles commands.
RaceSpec == Init /\ [][RaceNext]_vars

\* The elements of a list.
Range(list) == {list[i] : i \in DOMAIN list}

\* The answers SELECT tg_id FROM users WHERE is_admin can give: the
\* administrators in any order.
AdminLists ==
    {list \in UNION {[1..n -> Ids] : n \in 0..NumIds} :
        \A i \in DOMAIN list : \A j \in DOMAIN list : list[i] = list[j] => i = j}

\* The loop of notify_admins left at the first send that raises.
RECURSIVE SendToAdminsUntilFailure(_, _, _)
SendToAdminsUntilFailure(admins, failing, acc) ==
    IF admins = <<>> THEN acc
    ELSE IF Head(admins) \in failing
         THEN [acc EXCEPT !.attempted = @ \cup {Head(admins)}]
         ELSE SendToAdminsUntilFailure(Tail(admins), failing,
                [acc EXCEPT !.attempted = @ \cup {Head(admins)},
                            !.received = @ \cup {Head(admins)},
                            !.result = TRUE])

\* The loop of notify_admins over the administrators: a send that raises is
\* logged and the loop goes on, a send that returns sets sent.
RECURSIVE SendToAdmins(_, _, _)
SendToAdmins(admins, failing, acc) ==
    IF admins = <<>> THEN acc
    ELSE SendToAdmins(Tail(admins), failing,
            IF Head(admins) \in failing
            THEN [acc EXCEPT !.attempted = @ \cup {Head(admins)}]
            ELSE [acc EXCEPT !.attempted = @ \cup {Head(admins)},
                             !.received = @ \cup {Head(admins)},
                             !.result = TRUE])

\* notify_admins(**kwargs): readable tells whether get_admins_ids returned,
\* failing are the administrators bot.send_message raises for.
notify_admins(readable, admins, failing) ==
    IF ~readable
    THEN [NoReport EXCEPT !.readable = FALSE, !.called = TRUE]
    ELSE SendToAdmins(admins, failing,
            [NoReport EXCEPT !.admins = admins, !.failing = failing,
                             !.called = TRUE])

\* A press of a button under a message of the bot arrives from chat id.
CallbackArrives(t, id) ==
    /\ pc[t] \in {"idle", "done"}
    /\ handler' = [handler EXCEPT ![t] = "callback_query"]
    /\ chat_id' = [chat_id EXCEPT ![t] = id]
    /\ pc' = [pc EXCEPT ![t] = "callback_decode"]
    /\ reply' = [reply EXCEPT ![t] = "none"]
    /\ admin_report' = [admin_report EXCEPT ![t] = NoReport]
    /\ UNCHANGED <<operators, conversations, selected, created, err, conversing,
                   notified, relay, text_locals>>

\* callback_query decodes call.data: an unsupported action is answered at
\* once, the mood "worse" goes on to notify the administrators, any other
\* rate is accepted.
CallbackDecode(t) ==
    /\ pc[t] = "callback_decode"
    /\ \E kind \in {"unsupported", "worse", "other"} :
        CASE kind = "unsupported" ->
                /\ reply' = [reply EXCEPT ![t] = "unsupported_action"]
                /\ pc' = [pc EXCEPT ![t] = "done"]
          [] kind = "worse" ->
                /\ reply' = reply
                /\ pc' = [pc EXCEPT ![t] = "callback_notify"]
          [] OTHER ->
                /\ reply' = [reply EXCEPT ![t] = "rate_accepted"]
                /\ pc' = [pc EXCEPT ![t] = "done"]
    /\ UNCHANGED <<operators, conversations, handler, chat_id, selected, created,
                   err, conversing, notified, relay, text_locals, admin_report>>

\* notify_admins(text=notification_text, parse_mode="Markdown")
CallbackNotify(t) ==
    /\ pc[t] = "callback_notify"
    /\ \E readable \in BOOLEAN : \E admins \in AdminLists :
        \E failing \in SUBSET Range(admins) :
            /\ ~readable => admins = <<>>
            /\ admin_report' = [admin_report EXCEPT ![t] =
                                    notify_admins(readable, admins, failing)]
    /\ pc' = [pc EXCEPT ![t] = "callback_answer"]
    /\ UNCHANGED <<operators, conversations, handler, chat_id, locals, relay,
                   text_locals>>

\* callback_query removes the buttons and answers the press.
CallbackAnswer(t) ==
    /\ pc[t] = "callback_answer"
    /\ reply' = [reply EXCEPT ![t] = "rate_accepted"]
    /\ pc' = [pc EXCEPT ![t] = "done"]
    /\ UNCHANGED <<operators, conversations, handler, chat_id, selected, created,
                   err, conversing, notified, relay, text_locals, admin_report>>

\* The steps of callback_query.
CallbackStep(t) ==
    \/ \E id \in Ids : CallbackArrives(t, id)
    \/ CallbackDecode(t)
    \/ CallbackNotify(t)
    \/ CallbackAnswer(t)

AdminNext == CallbackStep(1)

\* Presses of the rate buttons, handled one after the other.
AdminSpec == Init /\ [][AdminNext]_vars

----
\* Properties

\* Worker t is inside start_conversation_handler and start_conversation has
\* returned.
Returning(t) ==
    /\ handler[t] = "start_conversation"
    /\ pc[t] = "start_reply"

\* The call of worker t has produced start_conversation's return code.
Returned(t) ==
    /\ handler[t] = "start_conversation"
    /\ pc[t] \in {"start_reply", "done"}

\* Operators that appear in no row of rows.
FreeOperators(rows) == {o \in operators : RowsOf(o, rows) = {}}

\* The rows the INSERTs of the workers' current calls added.
RowsCreated == {<<chat_id[t], selected[t]>> : t \in {u \in Threads : created[u]}}

\* The table as it was before the start_conversation call of worker t, when
\* no other worker changed it since: the table without the row the call added.
Before(t) ==
    IF created[t] THEN conversations \ {<<chat_id[t], selected[t]>>}
                  ELSE conversations

\* C1: no identity appears in more than one row of conversations in any
\* role, so an operator assigned to a client is assigned to nobody else
\* while that client's row exists.
C1_OneRowPerIdentity ==
    \A r1 \in conversations : \A r2 \in conversations :
        r1 # r2 => {r1[1], r1[2]} \cap {r2[1], r2[2]} = {}

\* C1 witness: a concurrent call selected an operator that another client's
\* row holds by now, and was refused.
C1_Witness ==
    \E t \in Threads :
        /\ Returned(t)
        /\ selected[t] # Unset
        /\ ~created[t]
        /\ \E r \in conversations : r[2] = selected[t] /\ r[1] # chat_id[t]

\* C2: when every worker runs start_conversation for a different idle client
\* (none of them an operator) against a table that held no row before these
\* calls, so that every operator is free, and there are fewer operators than
\* callers, exactly as many calls return 0 as there are operators, every
\* other call returns 3, and the successful calls hold pairwise different
\* operators.
C2_ExactlyMSucceed ==
    ( /\ \A t \in Threads : Returned(t)
      /\ \A t \in Threads : \A u \in Threads : t # u => chat_id[t] # chat_id[u]
      /\ \A t \in Threads : chat_id[t] \notin operators
      /\ conversations \subseteq RowsCreated
      /\ Cardinality(operators) < NumThreads )
    =>
    ( /\ Cardinality({u \in Threads : err[u] = 0}) = Cardinality(operators)
      /\ \A t \in Threads : err[t] \in {0, 3}
      /\ \A t \in Threads : \A u \in Threads :
            (t # u /\ err[t] = 0 /\ err[u] = 0)
                => conversing[t][2] # conversing[u][2] )

\* C3: a call that returns 0 has itself created a row whose client is the
\* caller, and the pair it returns is that row.
C3_SuccessCreatedRow ==
    \A t \in Threads :
        (Returned(t) /\ err[t] = 0)
            => (created[t] /\ conversing[t] = <<chat_id[t], selected[t]>>)

\* C4: with events handled one after the other, start_conversation called by
\* the operator of an active conversation returns 2 and creates no row,
\* whatever the number of free operators.
C4_OperatingGetsCode2 ==
    \A t \in Threads :
        (Returning(t) /\ \E r \in Before(t) : r[2] = chat_id[t])
            => (err[t] = 2 /\ ~created[t])

\* C5: with events handled one after the other, start_conversation of an idle
\* client with a free eligible operator returns 0, and start_conversation of
\* a caller that is a client already returns 1 and adds no row.
C5_FirstSucceedsSecondRefused ==
    \A t \in Threads :
        /\ ( /\ Returning(t)
             /\ RowsOf(chat_id[t], Before(t)) = {}
             /\ EligibleOperators(chat_id[t], Before(t)) # {} )
           => (err[t] = 0 /\ created[t])
        /\ (Returning(t) /\ \E r \in Before(t) : r[1] = chat_id[t])
           => (err[t] = 1 /\ ~created[t] /\ selected[t] = Unset)

\* C5 witness: a client in a conversation called again while no operator was
\* free, and got code 1.
C5_Witness ==
    \E t \in Threads :
        /\ Returning(t)
        /\ err[t] = 1
        /\ \E r \in conversations : r[1] = chat_id[t]
        /\ EligibleOperators(chat_id[t], conversations) = {}

\* C6: start_conversation produces code 1 only when the caller is the client
\* of a row at the check or at the insert that produces it.
C6_Code1OnlyForClient ==
    [][\A t \in Threads :
            ( /\ pc[t] \in {"start_check", "insert_commit"}
              /\ pc'[t] = "start_reply"
              /\ err'[t] = 1 )
            => \E r \in conversations : r[1] = chat_id[t]]_vars

\* C7: start_conversation returns 3 only if its INSERT found no eligible
\* operator, and never after its own INSERT created a row.
C7_Code3OnlyWithoutOperator ==
    \A t \in Threads :
        (Returned(t) /\ err[t] = 3) => (selected[t] = Unset /\ ~created[t])

\* C8: with events handled one after the other, an end request of the client
\* C of row (C, O) reaches the delete; after the delete the row is gone,
\* get_conversing reports no conversation for C and for O, and O is a free
\* operator; O is told about the end; and start_conversation of an idle
\* client for whom O is the only eligible operator returns 0 with operator O.
C8_EndFreesOperator ==
    [][\A t \in Threads :
        /\ ( /\ pc[t] = "end_read"
             /\ pc'[t] # "end_read"
             /\ \E r \in conversations : r[1] = chat_id[t] )
           => ( /\ pc'[t] = "end_delete"
                /\ conversing'[t] \in conversations
                /\ conversing'[t][1] = chat_id[t] )
        /\ (pc[t] = "end_delete" /\ pc'[t] # "end_delete")
           => ( /\ conversations' = conversations \ {conversing[t]}
                /\ conversing[t] \notin conversations'
                /\ get_conversing(chat_id[t], conversations') = {NoConversation}
                /\ get_conversing(conversing[t][2], conversations') = {NoConversation}
                /\ conversing[t][2] \in FreeOperators(conversations') )
        /\ (pc[t] = "end_notify" /\ pc'[t] # "end_notify")
           => ( /\ reply'[t] = "conversation_ended"
                /\ notified'[t] = conversing[t][2] )
        /\ \A o \in Ids :
            ( /\ Returning(t)
              /\ RowsOf(chat_id[t], Before(t)) = {}
              /\ EligibleOperators(chat_id[t], Before(t)) = {o} )
            => ( /\ err[t] = 0
                 /\ conversing[t] = <<chat_id[t], o>>
                 /\ conversing[t] \in conversations )]_vars

\* C8 witness: one worker ended the conversation of C with O, and then another
\* idle client, for whom O was the only eligible operator, was paired with O.
C8_Witness ==
    \E t \in Threads : \E u \in Threads :
        /\ handler[u] = "end_conversation"
        /\ pc[u] = "done"
        /\ reply[u] = "conversation_ended"
        /\ Returning(t)
        /\ err[t] = 0
        /\ chat_id[t] # chat_id[u]
        /\ conversing[t] = <<chat_id[t], notified[u]>>
        /\ conversing[t] \in conversations
        /\ EligibleOperators(chat_id[t], Before(t)) = {notified[u]}

\* C9: a row leaves conversations only in the delete of an end request sent
\* by the row's client; an end request of a caller that is an operator or in
\* no conversation changes no row and notifies nobody.
C9_OnlyClientEnds ==
    [][/\ \A r \in conversations \ conversations' :
            \E t \in Threads :
                /\ pc[t] = "end_delete"
                /\ pc'[t] = "end_notify"
                /\ chat_id[t] = r[1]
       /\ \A t \in Threads :
            ( /\ pc[t] = "end_read"
              /\ pc'[t] # "end_read"
              /\ ~ \E r \in conversations : r[1] = chat_id[t] )
            => ( /\ pc'[t] = "done"
                 /\ conversations' = conversations
                 /\ notified'[t] = Unset
                 /\ reply'[t] \in {"operator_cannot_end", "not_in_conversation"} )]_vars

\* C9 witness: the operator of an active conversation asked to end it and was
\* refused.
C9_Witness ==
    \E t \in Threads :
        /\ handler[t] = "end_conversation"
        /\ pc[t] = "done"
        /\ reply[t] = "operator_cannot_end"
        /\ notified[t] = Unset
        /\ conversing[t] \in conversations
        /\ conversing[t][2] = chat_id[t]

\* C10: in every row of conversations the client differs from the operator
\* and the operator carries the operator role.
C10_OperatorIsAnotherOperator ==
    \A r \in conversations : r[1] # r[2] /\ r[2] \in operators

\* C10 witness: a free user with the operator role asked for help while no
\* other operator was free, and was not paired with themself.
C10_Witness ==
    \E t \in Threads :
        /\ Returned(t)
        /\ err[t] = 3
        /\ chat_id[t] \in FreeOperators(conversations)
        /\ conversations # {}

\* Worker t is in text_message_handler, past the lookup of the reply target,
\* or has left the handler.
PastLookup(t) ==
    /\ handler[t] = "text_message"
    /\ pc[t] \in {"text_send", "text_record", "done"}

\* Worker t has delivered the text it handles.
Delivered(t) ==
    /\ handler[t] = "text_message"
    /\ sent[t] # Unset

\* C11: when the ledger holds the relay of a message between the sender and
\* the identity it is paired with, a text of the sender that replies to its
\* side of the relay (its own message a, or the copy b it received) is
\* addressed to the paired identity as a reply to the other side, and is
\* never answered as unresolved or as being without a conversation; only a
\* failing send keeps it from being delivered.
C11_ReplyRoundTrip ==
    \A t \in Threads : \A cv \in conversations : \A r \in reflected_messages :
        LET other == IF chat_id[t] = cv[1] THEN cv[2] ELSE cv[1]
        IN  ( /\ PastLookup(t)
              /\ chat_id[t] \in {cv[1], cv[2]}
              /\ reply_to_message[t] # Unset
              /\ r[1] = other
              /\ r[3] = chat_id[t]
              /\ r[4] = reply_to_message[t] )
            => /\ interlocutor_id[t] = other
               /\ reply_to[t] = r[2]
               /\ pc[t] = "done" => (Delivered(t) \/ reply[t] = "error")

\* C11 witness: a reply was delivered to the paired identity, threaded to the
\* other side of a relay the ledger holds.
C11_Witness ==
    \E t \in Threads :
        /\ Delivered(t)
        /\ pc[t] = "done"
        /\ reply_to[t] # Unset
        /\ <<interlocutor_id[t], reply_to[t], chat_id[t], reply_to_message[t]>>
                \in reflected_messages
        /\ \E cv \in conversations : {chat_id[t], interlocutor_id[t]} = {cv[1], cv[2]}

\* Worker t has left text_message_handler for a text that replied to a
\* message.
RepliedText(t) ==
    /\ handler[t] = "text_message"
    /\ pc[t] = "done"
    /\ reply_to_message[t] # Unset

\* The ledger holds a row the text of worker t made.
RecordedBy(t) ==
    \E r \in reflected_messages :
        \/ r[1] = chat_id[t] /\ r[2] = message_id[t]
        \/ r[3] = chat_id[t] /\ r[4] = message_id[t]

\* C12 as stated: a text replying to a message id of its chat that no row of
\* the ledger records is answered as unresolved, whether or not the sender
\* is in a conversation.
C12_UnresolvedWhateverTheConversation ==
    \A t \in Threads :
        ( /\ RepliedText(t)
          /\ \A r \in reflected_messages :
                ~(r[3] = chat_id[t] /\ r[4] = reply_to_message[t]) )
        => reply[t] = "reply_target_unresolved"

\* C12 amended: a text of a sender that is in a conversation, replying to a
\* message id that no row from the counterpart to the sender records, is
\* answered as unresolved, nothing is delivered and no row is added; a
\* sender in no conversation is answered as having no interlocutor instead.
C12_UnresolvedInConversation ==
    \A t \in Threads :
        ( /\ RepliedText(t)
          /\ \A r \in reflected_messages :
                ~(r[1] = interlocutor_id[t] /\ r[3] = chat_id[t]
                    /\ r[4] = reply_to_message[t]) )
        => /\ ~Delivered(t)
           /\ ~RecordedBy(t)
           /\ reply[t] = IF conversing[t] = NoConversation
                          THEN "no_interlocutor"
                          ELSE "reply_target_unresolved"

\* C12 witness: a sender in a conversation was answered as unresolved.
C12_Witness ==
    \E t \in Threads :
        /\ RepliedText(t)
        /\ conversing[t] # NoConversation
        /\ reply[t] = "reply_target_unresolved"

\* C13: the rows of the ledger are inserted after the delivery: every row
\* names message ids their chats hold, a text whose send failed has no row,
\* and a text that has a row was delivered before.
C13_RecordOnlyAfterDelivery ==
    /\ \A r \in reflected_messages :
        /\ r[2] \in 1..last_message_id[r[1]]
        /\ r[4] \in 1..last_message_id[r[3]]
    /\ \A t \in Threads :
        handler[t] = "text_message" =>
            /\ reply[t] = "error" => ~RecordedBy(t)
            /\ RecordedBy(t) =>
                    /\ Delivered(t)
                    /\ <<chat_id[t], message_id[t], interlocutor_id[t], sent[t]>>
                            \in reflected_messages

\* C13 witness: a send failed after earlier texts were relayed and recorded.
C13_Witness ==
    \E t \in Threads :
        /\ handler[t] = "text_message"
        /\ pc[t] = "done"
        /\ reply[t] = "error"
        /\ reflected_messages # {}

\* C14: when text_message_handler reads the conversation of a sender that
\* is in no row, it leaves at once with the no-interlocutor answer: it does
\* not go on to the lookup in the ledger or to the send, no chat gets a
\* message, and the ledger and the conversations stay as they are.
C14_NoConversationNoRelay ==
    [][\A t \in Threads :
        ( /\ pc[t] = "text_read"
          /\ pc'[t] # "text_read"
          /\ RowsOf(chat_id[t], conversations) = {} )
        => /\ pc'[t] = "done"
           /\ reply'[t] = "no_interlocutor"
           /\ interlocutor_id'[t] = Unset
           /\ sent'[t] = Unset
           /\ UNCHANGED <<conversations, reflected_messages, last_message_id>>]_vars

\* C14 witness: a text that replied to a message was answered as having no
\* interlocutor while the ledger held rows.
C14_Witness ==
    \E t \in Threads :
        /\ RepliedText(t)
        /\ reply[t] = "no_interlocutor"
        /\ reflected_messages # {}

\* C15: an end request of a caller that is in no row is answered as not
\* being in a conversation and does nothing else: the conversations and the
\* ledger stay as they are and nobody is notified.  Deleting the rows of a
\* client a second time leaves the table as the first delete left it.
C15_EndWithoutConversationIsNoOp ==
    [][/\ \A id \in Ids :
            end_conversation(id, end_conversation(id, conversations))
                = end_conversation(id, conversations)
       /\ \A t \in Threads :
            ( /\ pc[t] = "end_read"
              /\ pc'[t] # "end_read"
              /\ RowsOf(chat_id[t], conversations) = {} )
            => /\ pc'[t] = "done"
               /\ reply'[t] = "not_in_conversation"
               /\ notified'[t] = Unset
               /\ UNCHANGED <<conversations, reflected_messages>>]_vars

\* C15 witness: after a conversation in which texts were relayed had ended,
\* an end request was answered as not being in a conversation.
C15_Witness ==
    \E t \in Threads :
        /\ handler[t] = "end_conversation"
        /\ pc[t] = "done"
        /\ reply[t] = "not_in_conversation"
        /\ conversations = {}
        /\ reflected_messages # {}

\* C16: notify_admins tries every administrator of the list, also after
\* sends that failed; the administrators that received the message are the
\* ones of the list the send did not fail for; and it returns TRUE exactly
\* when at least one received it, so FALSE when the list cannot be read or
\* every send fails.
C16_NotifyEveryAdmin ==
    \A t \in Threads :
        admin_report[t].called =>
            /\ admin_report[t].attempted =
                    IF admin_report[t].readable
                    THEN Range(admin_report[t].admins) ELSE {}
            /\ admin_report[t].received =
                    admin_report[t].attempted \ admin_report[t].failing
            /\ admin_report[t].result = (admin_report[t].received # {})
            /\ ~admin_report[t].readable => ~admin_report[t].result

\* C16 witness: the send to the first administrator failed and a later one
\* received the message.
C16_Witness ==
    \E t \in Threads :
        /\ admin_report[t].called
        /\ Len(admin_report[t].admins) > 1
        /\ Head(admin_report[t].admins) \in admin_report[t].failing
        /\ admin_report[t].received # {}
        /\ admin_report[t].result

\* The row that records the relay of row r in the other direction.
Reversed(r) == <<r[3], r[4], r[1], r[2]>>

\* C17: every step leaves the ledger closed under reversal and removes no
\* row of it; a step that adds rows adds a row together with its reverse;
\* and the handlers of the conversation commands leave the ledger as it is.
C17_LedgerSymmetricAppendOnly ==
    [][/\ \A r \in reflected_messages' : Reversed(r) \in reflected_messages'
       /\ reflected_messages \subseteq reflected_messages'
       /\ \A r \in reflected_messages' \ reflected_messages :
            Reversed(r) \in reflected_messages' \ reflected_messages
       /\ \A t \in Threads :
            (handler[t] \in {"start_conversation", "end_conversation"}
                /\ pc'[t] # pc[t] /\ handler'[t] = handler[t])
            => reflected_messages' = reflected_messages]_vars

\* C17 witness: the rows of a relayed text are still in the ledger after the
\* conversation has ended.
C17_Witness ==
    /\ reflected_messages # {}
    /\ conversations = {}
    /\ \E t \in Threads :
        /\ handler[t] = "end_conversation"
        /\ pc[t] = "done"
        /\ reply[t] = "conversation_ended"

C19_DeliveredToCurrentCounterpart ==
    [][\A t \in Threads :
        ( /\ pc[t] = "text_send"
          /\ sent'[t] # Unset )
        => \E cv \in conversations :
                {cv[1], cv[2]} = {chat_id[t], interlocutor_id[t]}]_vars

\* C20: with events handled one after the other, a reply target is resolved
\* only through a row from the sender's current counterpart to the sender
\* for the message replied to; a reply to a message that only rows of other
\* chats record, as one relayed in an earlier conversation, is answered as
\* unresolved and is not delivered.
C20_ResolvedThroughCurrentCounterpart ==
    \A t \in Threads :
        /\ (PastLookup(t) /\ reply_to[t] # Unset)
           => /\ <<interlocutor_id[t], reply_to[t], chat_id[t], reply_to_message[t]>>
                    \in reflected_messages
              /\ \E cv \in conversations :
                    {cv[1], cv[2]} = {chat_id[t], interlocutor_id[t]}
        /\ ( /\ RepliedText(t)
             /\ conversing[t] # NoConversation
             /\ \A r \in reflected_messages :
                   (r[3] = chat_id[t] /\ r[4] = reply_to_message[t])
                        => r[1] # interlocutor_id[t] )
           => /\ reply[t] = "reply_target_unresolved"
              /\ reply_to[t] = Unset
              /\ ~Delivered(t)

\* C20 witness: a reply to a message relayed with an earlier counterpart was
\* answered as unresolved in a conversation with another counterpart.
C20_Witness ==
    \E t \in Threads :
        /\ RepliedText(t)
        /\ reply[t] = "reply_target_unresolved"
        /\ \E cv \in conversations :
                {cv[1], cv[2]} = {chat_id[t], interlocutor_id[t]}
        /\ \E r \in reflected_messages :
                /\ r[3] = chat_id[t]
                /\ r[4] = reply_to_message[t]
                /\ r[1] # interlocutor_id[t]

====
